---------------------------- MODULE Spec2Model ----------------------------
(***************************************************************************)
(* A model of the model factory of src/src/model_factory.py: the provider  *)
(* registry, plugin discovery, the two-source configuration load (local    *)
(* directory, S3 directory named by an SSM parameter), merge, validation,  *)
(* the ModelFactory singleton, get_model_instance and the lru_cache'd      *)
(* get_llm facade.                                                         *)
(*                                                                         *)
(* Python's Optional values are sequences of length at most one: None is   *)
(* << >> and a present value v is << v >>.  An exception is a pair of the  *)
(* exception type's name (exc, "" when nothing was raised) and its message *)
(* (msg, a tuple of the message's parts).                                  *)
(***************************************************************************)
EXTENDS Naturals, Sequences, FiniteSets, TLC

VARIABLES
    instance,            \* ModelFactory._instance is not None
    all_models_config,   \* _instance._all_models_config (Optional catalog)
    model_type_registry, \* ModelFactory._model_type_registry: key -> class
    lru,                 \* _get_llm_lru's cache, least recently used first
    nobjs,               \* provider objects built so far (object identities)
    last,                \* the last call: operation and outcome
    handed,              \* some ModelFactory(path) call has returned a factory
    loaded_path,         \* the path a catalog was loaded and stored for
    memo,                \* by cache key: the object a get_llm returned for it,
                         \* 0 after a force_reload or a cache overflow
    arg,                 \* the input of a pure function applied alone (Optional)
    result,              \* its output (Optional)
    frame                \* the frame of a __new__ call run line by line: the
                         \* next step, its local variables, the steps done

vars == << instance, all_models_config, model_type_registry, lru, nobjs, last,
           handed, loaded_path, memo, arg, result, frame >>

prog == << instance, all_models_config, model_type_registry, lru, nobjs, last,
           handed, loaded_path, memo >>

pure == << arg, result, frame >>

(***************************************************************************)
(* Bounds of the model.                                                    *)
(***************************************************************************)
\* objects built in one behaviour
MaxObjects == 3

\* lru_cache(maxsize=128) of _get_llm_lru, scaled down so that the cache
\* overflows within the bounds
maxsize == 2

None == << >>

Some(v) == << v >>

NoMsg == << >>

(***************************************************************************)
(* The values the model draws its inputs from.                             *)
(***************************************************************************)
Names == {"claude", "gpt_4o"}

Paths == {"p1", "p2"}

Keys == Names \X Paths

BuiltinRegistry ==
    [bedrock |-> "LangChainBedrockModel", openai |-> "LangChainOpenAIModel"]

\* str.lower on the artifact base names the model uses
Lower(s) ==
    CASE s = "Custom" -> "custom"
      [] s = "Broken" -> "broken"
      [] s = "Empty"  -> "empty"
      [] s = "Other"  -> "other"
      [] OTHER        -> s

(***************************************************************************)
(* The sources: SSM parameters and directories of YAML files.              *)
(***************************************************************************)
\* One YAML file per model, the raw entry a file parses to
RawClaude == [name |-> "claude", provider |-> "bedrock", model_id |-> "claude-v1"]

\* a file claude.yaml whose name field is not the file's base name
RawClaudeP2 ==
    [name |-> "claude_p2", provider |-> "bedrock", model_id |-> "claude-p2"]

RawGpt == [name |-> "gpt_4o", provider |-> "openai", model_id |-> "gpt-4o"]

RawGptCustom == [name |-> "gpt_4o", provider |-> "custom", model_id |-> "gpt-4o"]

\* an entry whose provider key is the base name of the plugin Custom.py
RawClaudeCustom == [name |-> "claude", provider |-> "Custom", model_id |-> "claude-v1"]

RawPatch == [model_id |-> "claude-v2", max_tokens |-> 2048]

RawBadTokens == [max_tokens |-> 0]

NotDir == [kind |-> "notdir"]

BadYaml == [kind |-> "bad_yaml"]

Dir(tree) == [kind |-> "dir", models |-> tree]

EmptyTree == << >>

LocalTree1 == [claude |-> RawClaude, gpt_4o |-> RawGpt]

LocalTree2 == [claude |-> RawClaudeP2]

LocalTree3 == [claude |-> RawClaudeCustom, gpt_4o |-> RawGptCustom]

RemoteTree1 == [claude |-> RawPatch]

RemoteTree2 == [gpt_4o |-> RawBadTokens]

LocalStates ==
    {NotDir, BadYaml, Dir(EmptyTree), Dir(LocalTree1), Dir(LocalTree2),
     Dir(LocalTree3)}

\* ssm: the outcome of get_parameter; dir: the S3 directory the value names
SsmError == [ssm |-> "error"]

SsmEmpty == [ssm |-> "empty"]

SsmDir(d) == [ssm |-> "value", dir |-> d]

ModelsStates ==
    {SsmError, SsmEmpty, SsmDir(NotDir), SsmDir(Dir(EmptyTree)),
     SsmDir(Dir(RemoteTree1)), SsmDir(Dir(RemoteTree2))}

\* a plugin artifact: its base name and what loading it gives
Artifact(stem, kind) == [stem |-> stem, kind |-> kind]

PluginDir(files) == [kind |-> "dir", files |-> files]

ProvidersStates ==
    {SsmError, SsmEmpty, SsmDir(NotDir),
     SsmDir(PluginDir(<< Artifact("Custom", "class") >>)),
     SsmDir(PluginDir(<< Artifact("Empty", "noclass"), Artifact("Custom", "class") >>)),
     SsmDir(PluginDir(<< Artifact("Custom", "class"), Artifact("Broken", "raises"),
                         Artifact("Other", "class") >>))}

\* The environment a call runs in: the local directories by path, the SSM
\* models parameter with the S3 directory it names, the SSM providers
\* parameter with its S3 directory.  It is outside the program and may
\* differ from one call to the next.
Envs ==
    [fs : [Paths -> LocalStates], models : ModelsStates,
     providers : ProvidersStates]

\* the environments of the concurrent first calls: each path holds a tree
\* that loads or is no directory, the models parameter is empty, names a
\* patching directory or fails, the plugin location is absent, no directory,
\* or holds artifacts of which one may fail
ConcurrentEnvs ==
    [fs : [Paths -> {Dir(LocalTree1), Dir(LocalTree2), NotDir}],
     models : {SsmEmpty, SsmDir(Dir(RemoteTree1)), SsmError},
     providers : {SsmEmpty, SsmDir(NotDir),
                  SsmDir(PluginDir(<< Artifact("Custom", "class") >>)),
                  SsmDir(PluginDir(<< Artifact("Custom", "class"),
                                      Artifact("Broken", "raises"),
                                      Artifact("Other", "class") >>))}]

(***************************************************************************)
(* _fetch_ssm_parameter: the value, "" when the lookup fails and the       *)
(* parameter is not required (lines 44-66).                                *)
(***************************************************************************)
_fetch_ssm_parameter(param, required) ==
    IF param.ssm = "error"
    THEN IF required
         THEN [exc |-> "ModelConfigurationError",
               msg |-> << "Failed to load parameter from SSM" >>, value |-> ""]
         ELSE [exc |-> "", msg |-> NoMsg, value |-> ""]
    ELSE [exc |-> "", msg |-> NoMsg,
          value |-> IF param.ssm = "value" THEN "s3" ELSE ""]

(***************************************************************************)
(* _load_yaml_configs_from_path: the raw tree {"models": {stem: entry}} of *)
(* a directory; every failure becomes a ModelConfigurationError (lines     *)
(* 152-170).                                                               *)
(***************************************************************************)
_load_yaml_configs_from_path(d, path_desc) ==
    IF d.kind = "dir"
    THEN [exc |-> "", msg |-> NoMsg, raw |-> [models |-> d.models]]
    ELSE [exc |-> "ModelConfigurationError",
          msg |-> << "An unexpected error occurred loading yaml config from",
                     path_desc >>,
          raw |-> [models |-> EmptyTree]]

_load_local_config(d) == _load_yaml_configs_from_path(d, "local directory")

\* lines 176-183: an empty prefix skips the S3 load
_load_s3_config(s3_path_prefix, param) ==
    IF s3_path_prefix = ""
    THEN [exc |-> "", msg |-> NoMsg, raw |-> [models |-> EmptyTree]]
    ELSE _load_yaml_configs_from_path(param.dir, "S3 directory")

\* A variant of the merge that replaces a whole entry by the source's entry
\* (a dictionary update of the models instead of a recursive merge).
RECURSIVE OmegaConfMergeShallow(_, _, _)
OmegaConfMergeShallow(dest, src, depth) ==
    [k \in (DOMAIN dest) \cup (DOMAIN src) |->
        IF k \notin DOMAIN src THEN dest[k]
        ELSE IF k \in DOMAIN dest /\ depth > 1
             THEN OmegaConfMergeShallow(dest[k], src[k], depth - 1)
             ELSE src[k]]

(***************************************************************************)
(* OmegaConf.merge(local_config, remote_config), line 141: the source is   *)
(* merged into a copy of the destination key by key; where both hold a     *)
(* dictionary under a key the two are merged recursively, otherwise the    *)
(* source's value replaces the destination's.  depth is the number of      *)
(* dictionary levels below the one being merged.                           *)
(***************************************************************************)
RECURSIVE OmegaConfMerge(_, _, _)
OmegaConfMerge(dest, src, depth) ==
    [k \in (DOMAIN dest) \cup (DOMAIN src) |->
        IF k \notin DOMAIN src THEN dest[k]
        ELSE IF k \in DOMAIN dest /\ depth > 0
             THEN OmegaConfMerge(dest[k], src[k], depth - 1)
             ELSE src[k]]

(***************************************************************************)
(* ModelConfig / AllModelsConfig validation (config_models.py 16-39) and   *)
(* _load_and_validate_configs (lines 121-129).                             *)
(***************************************************************************)
Required == {"name", "provider", "model_id"}

\* the YAML keys of the two cost fields (their aliases, lines 25-30)
input_token_cost_alias == "input_token_cost_usd_per_million"

output_token_cost_alias == "output_token_cost_usd_per_million"

\* Field(..., ge=lo): the error of field f of entry key when it is below lo
GeError(key, e, f, lo) ==
    IF f \in DOMAIN e /\ e[f] < lo
    THEN {<< key, f, "greater_than_equal" >>} ELSE {}

\* Field(..., le=hi)
LeError(key, e, f, hi) ==
    IF f \in DOMAIN e /\ e[f] > hi
    THEN {<< key, f, "less_than_equal" >>} ELSE {}

\* The field errors of one raw entry, as pydantic collects them: one per
\* missing required field and one per violated bound.  temperature is in
\* tenths: Field(0.7, ge=0.0, le=2.0) is the range 0..20 with default 7.
EntryErrors(key, e) ==
    {<< key, f, "missing" >> : f \in Required \ DOMAIN e}
    \cup GeError(key, e, input_token_cost_alias, 0)
    \cup GeError(key, e, output_token_cost_alias, 0)
    \cup GeError(key, e, "max_tokens", 1)
    \cup GeError(key, e, "temperature", 0)
    \cup LeError(key, e, "temperature", 20)

\* a field's value, or its default when the raw entry does not give it
FieldOr(e, f, default) == IF f \in DOMAIN e THEN e[f] ELSE default

\* the ModelConfig of a valid raw entry, defaults applied
ModelConfig(e) ==
    [name |-> e.name, provider |-> e.provider, model_id |-> e.model_id,
     input_token_cost |-> FieldOr(e, input_token_cost_alias, 0),
     output_token_cost |-> FieldOr(e, output_token_cost_alias, 0),
     max_tokens |-> FieldOr(e, "max_tokens", 1024),
     temperature |-> FieldOr(e, "temperature", 7)]

\* the errors of the ValidationError, over every entry of the tree
ValidationErrors(raw) ==
    UNION {EntryErrors(k, raw.models[k]) : k \in DOMAIN raw.models}

\* A variant of the validation that drops the invalid entries and returns
\* the catalog of the valid ones.
_load_and_validate_configs_partial(raw_configs) ==
    [exc |-> "", msg |-> NoMsg,
     config |-> Some([models |->
        [k \in {j \in DOMAIN raw_configs.models :
                    EntryErrors(j, raw_configs.models[j]) = {}} |->
            ModelConfig(raw_configs.models[k])]])]

\* lines 121-129: the message carries the ValidationError and its errors
_load_and_validate_configs(raw_configs) ==
    IF ValidationErrors(raw_configs) = {}
    THEN [exc |-> "", msg |-> NoMsg,
          config |-> Some([models |-> [k \in DOMAIN raw_configs.models |->
                                          ModelConfig(raw_configs.models[k])]])]
    ELSE [exc |-> "ModelConfigurationError",
          msg |-> << "Configuration validation failed",
                     ValidationErrors(raw_configs) >>,
          config |-> None]

\* A variant of load_configurations whose "no models" check looks at the
\* models of the merged tree, and so rejects sources with zero entries.
load_configurations_nonempty(cur, source_path, fs, mparam) ==
    LET local  == _load_local_config(fs[source_path])
        ssm    == _fetch_ssm_parameter(mparam, TRUE)
        remote == _load_s3_config(ssm.value, mparam)
        raw    == OmegaConfMerge(local.raw, remote.raw, 2)
        valid  == _load_and_validate_configs(raw)
    IN  IF local.exc # "" THEN [exc |-> local.exc, msg |-> local.msg, config |-> cur]
        ELSE IF ssm.exc # "" THEN [exc |-> ssm.exc, msg |-> ssm.msg, config |-> cur]
        ELSE IF remote.exc # ""
             THEN [exc |-> remote.exc, msg |-> remote.msg, config |-> cur]
        ELSE IF DOMAIN raw.models = {}
             THEN [exc |-> "ModelConfigurationError",
                   msg |-> << "No 'models' section found in configurations from",
                              source_path >>,
                   config |-> cur]
        ELSE IF valid.exc # "" THEN [exc |-> valid.exc, msg |-> valid.msg, config |-> cur]
        ELSE [exc |-> "", msg |-> NoMsg, config |-> valid.config]

\* A variant of load_configurations that clears the stored catalog before it
\* loads, so that a failing call leaves the factory without one.
load_configurations_clearing(cur, source_path, fs, mparam) ==
    LET local  == _load_local_config(fs[source_path])
        ssm    == _fetch_ssm_parameter(mparam, TRUE)
        remote == _load_s3_config(ssm.value, mparam)
        raw    == OmegaConfMerge(local.raw, remote.raw, 2)
        valid  == _load_and_validate_configs(raw)
    IN  IF local.exc # "" THEN [exc |-> local.exc, msg |-> local.msg, config |-> None]
        ELSE IF ssm.exc # "" THEN [exc |-> ssm.exc, msg |-> ssm.msg, config |-> None]
        ELSE IF remote.exc # ""
             THEN [exc |-> remote.exc, msg |-> remote.msg, config |-> None]
        ELSE IF DOMAIN raw = {}
             THEN [exc |-> "ModelConfigurationError",
                   msg |-> << "No 'models' section found in configurations from",
                              source_path >>,
                   config |-> None]
        ELSE IF valid.exc # "" THEN [exc |-> valid.exc, msg |-> valid.msg, config |-> None]
        ELSE [exc |-> "", msg |-> NoMsg, config |-> valid.config]

(***************************************************************************)
(* load_configurations (lines 131-150): local load, required SSM lookup,   *)
(* S3 load, merge, validation; _all_models_config is assigned only when    *)
(* all of them succeeded.  cur is the value before the call.               *)
(***************************************************************************)
load_configurations(cur, source_path, fs, mparam) ==
    LET local  == _load_local_config(fs[source_path])
        ssm    == _fetch_ssm_parameter(mparam, TRUE)
        remote == _load_s3_config(ssm.value, mparam)
        raw    == OmegaConfMerge(local.raw, remote.raw, 2)
        valid  == _load_and_validate_configs(raw)
    IN  IF local.exc # "" THEN [exc |-> local.exc, msg |-> local.msg, config |-> cur]
        ELSE IF ssm.exc # "" THEN [exc |-> ssm.exc, msg |-> ssm.msg, config |-> cur]
        ELSE IF remote.exc # ""
             THEN [exc |-> remote.exc, msg |-> remote.msg, config |-> cur]
        ELSE IF DOMAIN raw = {}
             THEN [exc |-> "ModelConfigurationError",
                   msg |-> << "No 'models' section found in configurations from",
                              source_path >>,
                   config |-> cur]
        ELSE IF valid.exc # "" THEN [exc |-> valid.exc, msg |-> valid.msg, config |-> cur]
        ELSE [exc |-> "", msg |-> NoMsg, config |-> valid.config]

(***************************************************************************)
(* Plugin discovery.  _load_provider_module (lines 91-119) registers the   *)
(* first BaseLlmModel subclass of a module under the lower-cased base      *)
(* name; an exception raised while the module executes is not caught.      *)
(***************************************************************************)
\* A variant of the registration that rebinds the registry to a dictionary
\* holding the new key alone.
RegisterAlone(registry, key, class) == [k \in {key} |-> class]

\* line 114: self._model_type_registry[provider_key] = candidate_class
Register(registry, key, class) ==
    [k \in (DOMAIN registry) \cup {key} |-> IF k = key THEN class ELSE registry[k]]

_load_provider_module(registry, artifact) ==
    CASE artifact.kind = "class" ->
            [exc |-> "", msg |-> NoMsg,
             registry |-> Register(registry, Lower(artifact.stem), artifact.stem)]
      [] artifact.kind = "raises" ->
            [exc |-> "Exception", msg |-> << "exec_module", artifact.stem >>,
             registry |-> registry]
      [] OTHER -> [exc |-> "", msg |-> NoMsg, registry |-> registry]

\* the loop of lines 85-89 over the directory's *.py files
RECURSIVE LoadProviderFiles(_, _)
LoadProviderFiles(registry, files) ==
    IF files = << >> THEN [exc |-> "", msg |-> NoMsg, registry |-> registry]
    ELSE LET r == _load_provider_module(registry, Head(files))
         IN  IF r.exc # "" THEN r ELSE LoadProviderFiles(r.registry, Tail(files))

\* A variant of the discovery that treats the plugin location as required:
\* a lookup without a value and a location that is no directory raise.
_load_custom_providers_required(registry, pparam) ==
    IF _fetch_ssm_parameter(pparam, FALSE).value = ""
    THEN [exc |-> "ModelConfigurationError",
          msg |-> << "Failed to load parameter from SSM" >>, registry |-> registry]
    ELSE IF pparam.dir.kind # "dir"
         THEN [exc |-> "ModelConfigurationError",
               msg |-> << "S3 provider path is not a directory." >>,
               registry |-> registry]
         ELSE LoadProviderFiles(registry, pparam.dir.files)

\* lines 68-89
_load_custom_providers(registry, pparam) ==
    IF _fetch_ssm_parameter(pparam, FALSE).value = ""
    THEN [exc |-> "", msg |-> NoMsg, registry |-> registry]
    ELSE IF pparam.dir.kind # "dir"
         THEN [exc |-> "", msg |-> NoMsg, registry |-> registry]
         ELSE LoadProviderFiles(registry, pparam.dir.files)

\* A variant of __new__ without the singleton check: every call runs the
\* construction sequence.
ModelFactory_new_always(inst, config, registry, local_path, fs, mparam, pparam) ==
    LET seeded == IF DOMAIN registry = {} THEN BuiltinRegistry ELSE registry
        plug   == _load_custom_providers(seeded, pparam)
        load   == load_configurations(None, local_path, fs, mparam)
    IN  IF plug.exc # ""
        THEN [instance |-> TRUE, config |-> None, registry |-> plug.registry,
              exc |-> plug.exc, msg |-> plug.msg, loaded |-> None]
        ELSE [instance |-> TRUE, config |-> load.config,
              registry |-> plug.registry, exc |-> load.exc, msg |-> load.msg,
              loaded |-> IF load.exc = "" THEN Some(local_path) ELSE None]

(***************************************************************************)
(* ModelFactory.__new__ (lines 28-42).  _instance is assigned before the   *)
(* registry is seeded and before anything is loaded; an exception of       *)
(* _load_custom_providers or load_configurations leaves it assigned.       *)
(* The result holds the class state after the call, the exception if any,  *)
(* and loaded: the path a catalog was stored for by this call.             *)
(***************************************************************************)
ModelFactory_new(inst, config, registry, local_path, fs, mparam, pparam) ==
    IF ~inst
    THEN LET seeded == IF DOMAIN registry = {} THEN BuiltinRegistry ELSE registry
             plug   == _load_custom_providers(seeded, pparam)
             load   == load_configurations(None, local_path, fs, mparam)
         IN  IF plug.exc # ""
             THEN [instance |-> TRUE, config |-> None, registry |-> plug.registry,
                   exc |-> plug.exc, msg |-> plug.msg, loaded |-> None]
             ELSE [instance |-> TRUE, config |-> load.config,
                   registry |-> plug.registry, exc |-> load.exc, msg |-> load.msg,
                   loaded |-> IF load.exc = "" THEN Some(local_path) ELSE None]
    ELSE [instance |-> inst, config |-> config, registry |-> registry,
          exc |-> "", msg |-> NoMsg, loaded |-> None]

(***************************************************************************)
(* The provider classes.  BaseLlmModel.__init__ stores name and config and *)
(* calls _initialize_llm; LangChainOpenAIModel._initialize_llm raises      *)
(* ValueError when no API key is found.                                    *)
(***************************************************************************)
BaseLlmModel_init(class, name, config, id, key_set) ==
    IF class = "LangChainOpenAIModel" /\ ~key_set
    THEN [exc |-> "ValueError", msg |-> << "API key for ", name, " not found." >>,
          ret |-> None]
    ELSE [exc |-> "", msg |-> NoMsg,
          ret |-> Some([id |-> id, name |-> name, config |-> config,
                        class |-> class])]

\* A variant of get_model_instance that indexes the catalog instead of
\* calling get, so that an unknown key raises KeyError.
get_model_instance_keyerror(config, registry, model_name, id, key_set) ==
    IF config = None
    THEN [exc |-> "ModelConfigurationError",
          msg |-> << "Model configurations not loaded into the factory." >>,
          ret |-> None, ctor |-> FALSE]
    ELSE IF model_name \notin DOMAIN config[1].models
    THEN [exc |-> "KeyError", msg |-> << model_name >>, ret |-> None,
          ctor |-> FALSE]
    ELSE LET model_config == config[1].models[model_name]
             provider_key == model_config.provider
         IN  IF provider_key \notin DOMAIN registry
             THEN [exc |-> "ModelConfigurationError",
                   msg |-> << "No model class registered for provider '",
                              provider_key, "'." >>,
                   ret |-> None, ctor |-> FALSE]
             ELSE LET made == BaseLlmModel_init(registry[provider_key],
                                  model_config.name, model_config, id, key_set)
                  IN  [exc |-> made.exc, msg |-> made.msg, ret |-> made.ret,
                       ctor |-> TRUE]

\* A variant of get_model_instance whose registry lookup falls back to the
\* Bedrock class for a provider key that is not registered.
get_model_instance_default(config, registry, model_name, id, key_set) ==
    IF config = None
    THEN [exc |-> "ModelConfigurationError",
          msg |-> << "Model configurations not loaded into the factory." >>,
          ret |-> None, ctor |-> FALSE]
    ELSE IF model_name \notin DOMAIN config[1].models
    THEN [exc |-> "ModelNotFoundError",
          msg |-> << "Config for '", model_name, "' not found." >>,
          ret |-> None, ctor |-> FALSE]
    ELSE LET model_config == config[1].models[model_name]
             provider_key == model_config.provider
             model_class  == IF provider_key \in DOMAIN registry
                             THEN registry[provider_key]
                             ELSE "LangChainBedrockModel"
             made == BaseLlmModel_init(model_class, model_config.name,
                                       model_config, id, key_set)
         IN  [exc |-> made.exc, msg |-> made.msg, ret |-> made.ret, ctor |-> TRUE]

\* A variant of get_model_instance that keeps the object it built first and
\* returns it again on later calls.
get_model_instance_kept(config, registry, model_name, id, key_set) ==
    IF config = None
    THEN [exc |-> "ModelConfigurationError",
          msg |-> << "Model configurations not loaded into the factory." >>,
          ret |-> None, ctor |-> FALSE]
    ELSE IF model_name \notin DOMAIN config[1].models
    THEN [exc |-> "ModelNotFoundError",
          msg |-> << "Config for '", model_name, "' not found." >>,
          ret |-> None, ctor |-> FALSE]
    ELSE LET model_config == config[1].models[model_name]
             provider_key == model_config.provider
         IN  IF provider_key \notin DOMAIN registry
             THEN [exc |-> "ModelConfigurationError",
                   msg |-> << "No model class registered for provider '",
                              provider_key, "'." >>,
                   ret |-> None, ctor |-> FALSE]
             ELSE LET made == BaseLlmModel_init(registry[provider_key],
                                  model_config.name, model_config, 1, key_set)
                  IN  [exc |-> made.exc, msg |-> made.msg, ret |-> made.ret,
                       ctor |-> id = 1]

(***************************************************************************)
(* get_model_instance (lines 185-209).  ctor: a provider constructor was   *)
(* invoked.                                                                *)
(***************************************************************************)
get_model_instance(config, registry, model_name, id, key_set) ==
    IF config = None
    THEN [exc |-> "ModelConfigurationError",
          msg |-> << "Model configurations not loaded into the factory." >>,
          ret |-> None, ctor |-> FALSE]
    ELSE IF model_name \notin DOMAIN config[1].models
    THEN [exc |-> "ModelNotFoundError",
          msg |-> << "Config for '", model_name, "' not found." >>,
          ret |-> None, ctor |-> FALSE]
    ELSE LET model_config == config[1].models[model_name]
             provider_key == model_config.provider
         IN  IF provider_key \notin DOMAIN registry
             THEN [exc |-> "ModelConfigurationError",
                   msg |-> << "No model class registered for provider '",
                              provider_key, "'." >>,
                   ret |-> None, ctor |-> FALSE]
             ELSE LET made == BaseLlmModel_init(registry[provider_key],
                                  model_config.name, model_config, id, key_set)
                  IN  [exc |-> made.exc, msg |-> made.msg, ret |-> made.ret,
                       ctor |-> TRUE]

(***************************************************************************)
(* functools.lru_cache(maxsize) as _get_llm_lru uses it (lines 220-222):   *)
(* a hit moves the entry to the most recently used end; a miss inserts the *)
(* result, evicting the least recently used entry when the cache is full;  *)
(* an exception stores nothing.                                            *)
(***************************************************************************)
CacheIndex(cache, key) ==
    IF \E i \in 1..Len(cache) : cache[i].key = key
    THEN CHOOSE i \in 1..Len(cache) : cache[i].key = key
    ELSE 0

\* A variant of the hit that leaves the order as it is, which makes the
\* eviction first-in first-out.
CacheTouchNone(cache, i) == cache

CacheTouch(cache, i) ==
    SubSeq(cache, 1, i - 1) \o SubSeq(cache, i + 1, Len(cache)) \o << cache[i] >>

\* A variant of the insertion that evicts one entry too early.
CacheInsertEarly(cache, key, obj) ==
    (IF Len(cache) + 1 >= maxsize THEN Tail(cache) ELSE cache)
        \o << [key |-> key, obj |-> obj] >>

CacheInsert(cache, key, obj) ==
    (IF Len(cache) >= maxsize THEN Tail(cache) ELSE cache)
        \o << [key |-> key, obj |-> obj] >>

\* A variant of the cache that stores the outcome of a call that raised as
\* well, and replays it on the next call.
CacheRaisedStored(cache, key) ==
    (IF Len(cache) >= maxsize THEN Tail(cache) ELSE cache)
        \o << [key |-> key, obj |-> [id |-> 0]] >>

\* the wrapped call raised: the exception passes through lru_cache, which
\* stores nothing
CacheRaised(cache, key) == cache

\* A variant of force_reload that leaves the cache as it is.
cache_clear_none(cache) == cache

\* line 240: force_reload clears the lru cache, and nothing else
cache_clear(cache) == << >>

(***************************************************************************)
(* The state machine.  Every call takes the environment it runs in as an   *)
(* input: env for the sources, key_set for the OPENAI_API_KEY variable.    *)
(***************************************************************************)
Call(op, name, path, force, exc, msg, ret, ctor) ==
    [op |-> op, name |-> name, path |-> path, force |-> force, exc |-> exc,
     msg |-> msg, ret |-> ret, ctor |-> ctor]

NoCall == Call("none", "", "", FALSE, "", NoMsg, None, FALSE)

NoMemo == [k \in Keys |-> 0]

\* no __new__ call is being run line by line
NoFrame == [pc |-> "none"]

Init ==
    /\ instance = FALSE
    /\ all_models_config = None
    /\ model_type_registry = << >>
    /\ lru = << >>
    /\ nobjs = 0
    /\ last = NoCall
    /\ handed = FALSE
    /\ loaded_path = None
    /\ memo = NoMemo
    /\ arg = None
    /\ result = None
    /\ frame = NoFrame

\* factory = ModelFactory(local_path), called directly
New(local_path, env) ==
    LET f == ModelFactory_new(instance, all_models_config, model_type_registry,
                              local_path, env.fs, env.models, env.providers)
    IN  /\ instance' = f.instance
        /\ all_models_config' = f.config
        /\ model_type_registry' = f.registry
        /\ handed' = (handed \/ f.exc = "")
        /\ loaded_path' = IF f.loaded # None THEN f.loaded ELSE loaded_path
        /\ last' = Call("ModelFactory", "", local_path, FALSE, f.exc, f.msg, None,
                        FALSE)
        /\ UNCHANGED << lru, nobjs, memo, pure >>

\* factory.get_model_instance(model_name) on a factory a caller holds
GetModelInstance(model_name, key_set) ==
    LET g == get_model_instance(all_models_config, model_type_registry,
                                model_name, nobjs + 1, key_set)
    IN  /\ handed
        /\ g.ret # None => nobjs < MaxObjects
        /\ nobjs' = IF g.ret # None THEN nobjs + 1 ELSE nobjs
        /\ last' = Call("get_model_instance", model_name, "", FALSE, g.exc, g.msg,
                        g.ret, g.ctor)
        /\ UNCHANGED << instance, all_models_config, model_type_registry, lru,
                        handed, loaded_path, memo, pure >>

\* get_llm(model_name_key, local_path, force_reload), lines 215-241
GetLlm(model_name_key, local_path, force_reload, env, key_set) ==
    LET cache == IF force_reload THEN cache_clear(lru) ELSE lru
        memo0 == IF force_reload THEN NoMemo ELSE memo
        key   == << model_name_key, local_path >>
        hit   == CacheIndex(cache, key)
        f     == ModelFactory_new(instance, all_models_config, model_type_registry,
                                  local_path, env.fs, env.models, env.providers)
        g     == get_model_instance(f.config, f.registry, model_name_key,
                                    nobjs + 1, key_set)
    IN  /\ UNCHANGED pure
        /\ IF hit # 0
           THEN /\ lru' = CacheTouch(cache, hit)
                /\ memo' = [memo0 EXCEPT ![key] = cache[hit].obj.id]
                /\ last' = Call("get_llm", model_name_key, local_path,
                                force_reload, "", NoMsg, Some(cache[hit].obj),
                                FALSE)
                /\ UNCHANGED << instance, all_models_config, model_type_registry,
                                nobjs, handed, loaded_path >>
           ELSE /\ instance' = f.instance
                /\ all_models_config' = f.config
                /\ model_type_registry' = f.registry
                /\ handed' = (handed \/ f.exc = "")
                /\ loaded_path' = IF f.loaded # None THEN f.loaded ELSE loaded_path
                /\ IF f.exc # ""
                   THEN /\ lru' = CacheRaised(cache, key)
                        /\ memo' = memo0
                        /\ nobjs' = nobjs
                        /\ last' = Call("get_llm", model_name_key, local_path,
                                        force_reload, f.exc, f.msg, None, FALSE)
                   ELSE IF g.ret = None
                   THEN /\ lru' = CacheRaised(cache, key)
                        /\ memo' = memo0
                        /\ nobjs' = nobjs
                        /\ last' = Call("get_llm", model_name_key, local_path,
                                        force_reload, g.exc, g.msg, None, g.ctor)
                   ELSE /\ nobjs < MaxObjects
                        /\ lru' = CacheInsert(cache, key, g.ret[1])
                        /\ memo' = [(IF Len(cache) >= maxsize THEN NoMemo ELSE memo0)
                                       EXCEPT ![key] = g.ret[1].id]
                        /\ nobjs' = nobjs + 1
                        /\ last' = Call("get_llm", model_name_key, local_path,
                                        force_reload, "", NoMsg, g.ret, TRUE)

\* factory.load_configurations(source_path) on a factory a caller holds
\* (lines 131-150, a public method).  The call reads the directory at
\* source_path (d) and the models parameter (mparam) as they are at the time
\* of the call; line 148 replaces the catalog when every stage succeeded.
\* The lru cache and the registry are not touched.
CallLoadConfigurations(source_path, d, mparam) ==
    LET r == load_configurations(all_models_config, source_path,
                                 [p \in Paths |-> d], mparam)
    IN  /\ handed
        /\ all_models_config' = r.config
        /\ loaded_path' = IF r.exc = "" THEN Some(source_path) ELSE loaded_path
        /\ last' = Call("load_configurations", "", source_path, FALSE, r.exc,
                        r.msg, None, FALSE)
        /\ UNCHANGED << instance, model_type_registry, lru, nobjs, handed, memo,
                        pure >>

\* Every action sets last to the call it models, so in a step of the
\* program last' tells which call the step is.
\*
\* __new__ reads the sources only while _instance is None (line 29): once it
\* is set, a call's outcome is the same in every environment, and one
\* environment stands for all of them.
\* What a later load_configurations call finds at its sources: the directory
\* holds claude.yaml alone, renamed, and the models parameter is empty (the
\* call succeeds and replaces the catalog); or the parameter lookup fails
\* (the required lookup raises and the catalog stays).
ReloadSources ==
    {[dir |-> Dir(LocalTree2), models |-> SsmEmpty],
     [dir |-> Dir(LocalTree1), models |-> SsmError]}

\* the path a later load_configurations call passes
ReloadPaths == {"p1"}

AnyEnv == CHOOSE e \in Envs : TRUE

EnvsRead == IF instance THEN {AnyEnv} ELSE Envs

Next ==
    \/ \E p \in Paths, e \in EnvsRead : New(p, e)
    \/ \E n \in Names, k \in BOOLEAN : GetModelInstance(n, k)
    \/ \E n \in Names, p \in Paths, r \in BOOLEAN, e \in EnvsRead, k \in BOOLEAN :
          GetLlm(n, p, r, e, k)
    \/ \E p \in ReloadPaths, x \in ReloadSources :
          CallLoadConfigurations(p, x.dir, x.models)

Spec == Init /\ [][Next]_vars

(***************************************************************************)
(* The merge on its own: the inputs are drawn from every pair of raw trees *)
(* over two model keys and two fields, and Merge applies line 141 to them. *)
(***************************************************************************)
MergeFields == {"model_id", "description"}

MergeValues == {"a", "b"}

RawEntries == UNION {[D -> MergeValues] : D \in SUBSET MergeFields}

RawTrees == UNION {[D -> RawEntries] : D \in SUBSET Names}

InitMerge ==
    /\ instance = FALSE
    /\ all_models_config = None
    /\ model_type_registry = << >>
    /\ lru = << >>
    /\ nobjs = 0
    /\ last = NoCall
    /\ handed = FALSE
    /\ loaded_path = None
    /\ memo = NoMemo
    /\ arg \in {Some([local |-> l, remote |-> r]) : l \in RawTrees, r \in RawTrees}
    /\ result = None
    /\ frame = NoFrame

\* raw_configs = OmegaConf.merge(local_config, remote_config)
Merge ==
    /\ result = None
    /\ result' = Some(OmegaConfMerge([models |-> arg[1].local],
                                     [models |-> arg[1].remote], 2).models)
    /\ UNCHANGED << prog, arg, frame >>

NextMerge == Merge

SpecMerge == InitMerge /\ [][NextMerge]_vars

(***************************************************************************)
(* load_configurations on its own, on an instance as line 40 finds it: the *)
(* local tree is drawn from every tree over two model keys whose entries   *)
(* leave out required fields and break numeric bounds in every             *)
(* combination of the parts below, the remote source is absent or patches  *)
(* one entry with an invalid max_tokens.                                   *)
(***************************************************************************)
RequiredParts == {[f \in D |-> RawClaude[f]] : D \in SUBSET Required}

NumericParts ==
    {[f \in {} |-> 0],
     [max_tokens |-> 0],
     [max_tokens |-> 1, temperature |-> 20],
     [temperature |-> 21],
     [temperature |-> 0, input_token_cost_usd_per_million |-> 0,
      output_token_cost_usd_per_million |-> 0],
     [output_token_cost_usd_per_million |-> 0 - 1],
     [temperature |-> 0 - 1, input_token_cost_usd_per_million |-> 0 - 1],
     [max_tokens |-> 0, temperature |-> 21,
      input_token_cost_usd_per_million |-> 0 - 1,
      output_token_cost_usd_per_million |-> 0 - 1]}

LoadEntries == {r @@ n : r \in RequiredParts, n \in NumericParts}

LoadTrees == UNION {[D -> LoadEntries] : D \in SUBSET Names}

LoadRemotes == {SsmEmpty, SsmDir(Dir(RemoteTree2))}

InitLoad ==
    /\ instance = TRUE
    /\ all_models_config = None
    /\ model_type_registry = BuiltinRegistry
    /\ lru = << >>
    /\ nobjs = 0
    /\ last = NoCall
    /\ handed = FALSE
    /\ loaded_path = None
    /\ memo = NoMemo
    /\ arg \in {Some([local |-> l, remote |-> r]) : l \in LoadTrees, r \in LoadRemotes}
    /\ result = None
    /\ frame = NoFrame

\* cls._instance.load_configurations(local_path), line 40
LoadConfigurations ==
    /\ result = None
    /\ LET r == load_configurations(all_models_config, "p1",
                                    [p \in Paths |-> Dir(arg[1].local)],
                                    arg[1].remote)
       IN  /\ all_models_config' = r.config
           /\ result' = Some([exc |-> r.exc, msg |-> r.msg])
    /\ UNCHANGED << instance, model_type_registry, lru, nobjs, last, handed,
                    loaded_path, memo, arg, frame >>

NextLoad == LoadConfigurations

SpecLoad == InitLoad /\ [][NextLoad]_vars

(***************************************************************************)
(* The first ModelFactory(local_path) call run line by line (lines 28-42   *)
(* with load_configurations, lines 131-150, in line), in every environment *)
(* and for every path.  frame.pc is the step to run next, frame.steps the  *)
(* steps run so far, the other fields are the call's local values.         *)
(***************************************************************************)
\* A variant of the sequence that resolves the remote location before it
\* loads the local tree.
NextStepLookupFirst(step) ==
    CASE step = "enter"    -> "seed"
      [] step = "seed"     -> "discover"
      [] step = "discover" -> "lookup"
      [] step = "lookup"   -> "local"
      [] step = "local"    -> "remote"
      [] step = "remote"   -> "merge"
      [] step = "merge"    -> "validate"
      [] step = "validate" -> "store"
      [] step = "store"    -> "return"

\* the statement that runs after a statement that returned
NextStep(step) ==
    CASE step = "enter"    -> "seed"
      [] step = "seed"     -> "discover"
      [] step = "discover" -> "local"
      [] step = "local"    -> "lookup"
      [] step = "lookup"   -> "remote"
      [] step = "remote"   -> "merge"
      [] step = "merge"    -> "validate"
      [] step = "validate" -> "store"
      [] step = "store"    -> "return"

StartFrame ==
    [pc |-> "enter", steps |-> << >>, local_config |-> None,
     s3_path_prefix |-> None, remote_config |-> None, raw_configs |-> None,
     validated |-> None, exc |-> "", msg |-> NoMsg]

\* the statement of step returned
Advance(step) ==
    [frame EXCEPT !.pc = NextStep(step), !.steps = @ \o << step >>]

\* the statement of step raised: the exception leaves __new__
Raise(step, exc, msg) ==
    [frame EXCEPT !.pc = "raised", !.steps = @ \o << step >>, !.exc = exc,
                  !.msg = msg]

InitConstruct ==
    /\ instance = FALSE
    /\ all_models_config = None
    /\ model_type_registry = << >>
    /\ lru = << >>
    /\ nobjs = 0
    /\ last = NoCall
    /\ handed = FALSE
    /\ loaded_path = None
    /\ memo = NoMemo
    /\ arg \in {Some([local_path |-> p, env |-> e]) : p \in Paths, e \in Envs}
    /\ result = None
    /\ frame = StartFrame

\* lines 29-30: the singleton check and the assignment of _instance
Enter ==
    /\ frame.pc = "enter"
    /\ IF instance
       THEN /\ frame' = [frame EXCEPT !.pc = "return"]
            /\ UNCHANGED instance
       ELSE /\ frame' = [frame EXCEPT !.pc = NextStep("enter")]
            /\ instance' = TRUE
    /\ UNCHANGED << all_models_config, model_type_registry, lru, nobjs, last,
                    handed, loaded_path, memo, arg, result >>

\* lines 32-37
SeedBuiltins ==
    /\ frame.pc = "seed"
    /\ model_type_registry' =
          IF DOMAIN model_type_registry = {} THEN BuiltinRegistry
          ELSE model_type_registry
    /\ all_models_config' = None
    /\ frame' = Advance("seed")
    /\ UNCHANGED << instance, lru, nobjs, last, handed, loaded_path, memo, arg,
                    result >>

\* line 39
Discover ==
    /\ frame.pc = "discover"
    /\ LET r == _load_custom_providers(model_type_registry, arg[1].env.providers)
       IN  /\ model_type_registry' = r.registry
           /\ frame' = IF r.exc # "" THEN Raise("discover", r.exc, r.msg)
                       ELSE Advance("discover")
    /\ UNCHANGED << instance, all_models_config, lru, nobjs, last, handed,
                    loaded_path, memo, arg, result >>

\* line 134
LoadLocal ==
    /\ frame.pc = "local"
    /\ LET r == _load_local_config(arg[1].env.fs[arg[1].local_path])
       IN  frame' = IF r.exc # "" THEN Raise("local", r.exc, r.msg)
                    ELSE [Advance("local") EXCEPT !.local_config = Some(r.raw)]
    /\ UNCHANGED << prog, arg, result >>

\* line 139, the argument of the call of line 138
Lookup ==
    /\ frame.pc = "lookup"
    /\ LET r == _fetch_ssm_parameter(arg[1].env.models, TRUE)
       IN  frame' = IF r.exc # "" THEN Raise("lookup", r.exc, r.msg)
                    ELSE [Advance("lookup") EXCEPT !.s3_path_prefix = Some(r.value)]
    /\ UNCHANGED << prog, arg, result >>

\* line 138
LoadRemote ==
    /\ frame.pc = "remote"
    /\ LET r == _load_s3_config(frame.s3_path_prefix[1], arg[1].env.models)
       IN  frame' = IF r.exc # "" THEN Raise("remote", r.exc, r.msg)
                    ELSE [Advance("remote") EXCEPT !.remote_config = Some(r.raw)]
    /\ UNCHANGED << prog, arg, result >>

\* lines 141-146
MergeConfigs ==
    /\ frame.pc = "merge"
    /\ LET raw == OmegaConfMerge(frame.local_config[1], frame.remote_config[1], 2)
       IN  frame' = IF DOMAIN raw = {}
                    THEN Raise("merge", "ModelConfigurationError",
                               << "No 'models' section found in configurations from",
                                  arg[1].local_path >>)
                    ELSE [Advance("merge") EXCEPT !.raw_configs = Some(raw)]
    /\ UNCHANGED << prog, arg, result >>

\* line 148, the call on the right-hand side
Validate ==
    /\ frame.pc = "validate"
    /\ LET r == _load_and_validate_configs(frame.raw_configs[1])
       IN  frame' = IF r.exc # "" THEN Raise("validate", r.exc, r.msg)
                    ELSE [Advance("validate") EXCEPT !.validated = r.config]
    /\ UNCHANGED << prog, arg, result >>

\* line 148, the assignment, and lines 149-150, which read the catalog just
\* stored and print its size
Store ==
    /\ frame.pc = "store"
    /\ all_models_config' = frame.validated
    /\ loaded_path' = Some(arg[1].local_path)
    /\ frame' = Advance("store")
    /\ UNCHANGED << instance, model_type_registry, lru, nobjs, last, handed,
                    memo, arg, result >>

\* line 42
Return ==
    /\ frame.pc = "return"
    /\ handed' = TRUE
    /\ last' = Call("ModelFactory", "", arg[1].local_path, FALSE, "", NoMsg, None,
                    FALSE)
    /\ frame' = [frame EXCEPT !.pc = "returned"]
    /\ UNCHANGED << instance, all_models_config, model_type_registry, lru, nobjs,
                    loaded_path, memo, arg, result >>

NextConstruct ==
    \/ Enter
    \/ SeedBuiltins
    \/ Discover
    \/ LoadLocal
    \/ Lookup
    \/ LoadRemote
    \/ MergeConfigs
    \/ Validate
    \/ Store
    \/ Return

SpecConstruct == InitConstruct /\ [][NextConstruct]_vars

(***************************************************************************)
(* load_configurations called again and again on one instance, each time   *)
(* with the local directory and the remote source in another state: the    *)
(* first call is the one of line 40, the later ones are calls of the       *)
(* public method on the instance.  arg is the input of the last call,      *)
(* result its outcome.                                                     *)
(***************************************************************************)
InitReload ==
    /\ instance = TRUE
    /\ all_models_config = None
    /\ model_type_registry = BuiltinRegistry
    /\ lru = << >>
    /\ nobjs = 0
    /\ last = NoCall
    /\ handed = FALSE
    /\ loaded_path = None
    /\ memo = NoMemo
    /\ arg = None
    /\ result = None
    /\ frame = NoFrame

\* instance.load_configurations(source_path)
Reload(source_path, d, mparam) ==
    LET r == load_configurations(all_models_config, source_path,
                                 [p \in Paths |-> d], mparam)
    IN  /\ all_models_config' = r.config
        /\ arg' = Some([source_path |-> source_path, dir |-> d, models |-> mparam])
        /\ result' = Some([exc |-> r.exc, msg |-> r.msg])
        /\ UNCHANGED << instance, model_type_registry, lru, nobjs, last, handed,
                        loaded_path, memo, frame >>

NextReload ==
    \E p \in Paths, d \in LocalStates, m \in ModelsStates : Reload(p, d, m)

SpecReload == InitReload /\ [][NextReload]_vars

(***************************************************************************)
(* Two threads call ModelFactory(local_path) for the first time, each with *)
(* its own path, in one environment.  __new__ takes no lock, so the        *)
(* threads interleave between its statements and between the statements of *)
(* the methods it calls: line 29, line 30, the test of line 32, the        *)
(* assignment of lines 33-36, line 37, the parameter lookup, the directory *)
(* listing and each artifact of _load_custom_providers (line 39), the call *)
(* of line 40, which binds self to the instance cls._instance names at     *)
(* that moment, the statements of load_configurations up to the read of    *)
(* the stored catalog in line 149, and line 42.                            *)
(*                                                                         *)
(* frame.objects is the heap of the instances created so far, each with    *)
(* its _all_models_config attribute (set: the attribute exists, which it   *)
(* does from line 37 on); frame.current is the one cls._instance names, 0  *)
(* for None; all_models_config is the catalog of that instance.  Lines 37  *)
(* and 39 reach the instance through cls._instance when they run; the      *)
(* store of line 148 goes to the self bound by line 40, also when another  *)
(* thread's line 30 has replaced cls._instance since.  frame.thread holds  *)
(* each thread's next statement (pc), its self and its local variables;    *)
(* frame.runs counts the construction sequences begun; frame.got holds for *)
(* each thread that returned what line 42 gave it: the instance, whether   *)
(* it has the attribute, its catalog at that moment, and whether another   *)
(* thread was inside lines 32-40.                                          *)
(***************************************************************************)
Threads == {"t1", "t2"}

StartThread ==
    [pc |-> "check", self |-> 0, files |-> << >>, local_config |-> None,
     s3_path_prefix |-> None, remote_config |-> None, raw_configs |-> None,
     validated |-> None, exc |-> "", msg |-> NoMsg]

StartFrames ==
    [thread |-> [t \in Threads |-> StartThread], objects |-> << >>,
     current |-> 0, runs |-> 0, got |-> [t \in Threads |-> None]]

\* the statements of lines 32-40 and of the methods they call
ConstructionPcs ==
    {"test_registry", "seed_registry", "reset", "fetch_provider_path",
     "list_providers", "load_provider", "bind", "local", "lookup", "remote",
     "merge", "validate", "store", "count"}

InitConcurrent ==
    /\ instance = FALSE
    /\ all_models_config = None
    /\ model_type_registry = << >>
    /\ lru = << >>
    /\ nobjs = 0
    /\ last = NoCall
    /\ handed = FALSE
    /\ loaded_path = None
    /\ memo = NoMemo
    /\ arg \in {Some([local_path |-> lp, env |-> e]) :
                   lp \in [Threads -> Paths], e \in ConcurrentEnvs}
    /\ result = None
    /\ frame = StartFrames

\* thread t goes on to statement pc
Goto(t, pc) == [frame EXCEPT !.thread[t].pc = pc]

\* the statement thread t ran raised: the exception leaves __new__
RaiseIn(t, exc, msg) ==
    [frame EXCEPT !.thread[t].pc = "raised", !.thread[t].exc = exc,
                  !.thread[t].msg = msg]

\* line 29: if cls._instance is None
TestInstance(t) ==
    /\ frame.thread[t].pc = "check"
    /\ frame' = Goto(t, IF frame.current = 0 THEN "assign" ELSE "return")
    /\ UNCHANGED << prog, arg, result >>

\* line 30: a new instance, which has no _all_models_config attribute yet, is
\* assigned to cls._instance
AssignInstance(t) ==
    /\ frame.thread[t].pc = "assign"
    /\ instance' = TRUE
    /\ all_models_config' = None
    /\ loaded_path' = None
    /\ frame' = [Goto(t, "test_registry") EXCEPT
                    !.objects = Append(@, [set |-> FALSE, config |-> None]),
                    !.current = Len(frame.objects) + 1]
    /\ UNCHANGED << model_type_registry, lru, nobjs, last, handed, memo, arg,
                    result >>

\* line 32: if not cls._model_type_registry
TestRegistry(t) ==
    /\ frame.thread[t].pc = "test_registry"
    /\ frame' = [Goto(t, IF DOMAIN model_type_registry = {} THEN "seed_registry"
                         ELSE "reset")
                    EXCEPT !.runs = @ + 1]
    /\ UNCHANGED << prog, arg, result >>

\* lines 33-36: the class attribute is bound to a new dictionary of the
\* built-in providers
SeedRegistry(t) ==
    /\ frame.thread[t].pc = "seed_registry"
    /\ model_type_registry' = BuiltinRegistry
    /\ frame' = Goto(t, "reset")
    /\ UNCHANGED << instance, all_models_config, lru, nobjs, last, handed,
                    loaded_path, memo, arg, result >>

\* line 37: cls._instance._all_models_config = None, on the instance
\* cls._instance names now
ResetCatalog(t) ==
    /\ frame.thread[t].pc = "reset"
    /\ all_models_config' = None
    /\ loaded_path' = None
    /\ frame' = [Goto(t, "fetch_provider_path") EXCEPT
                    !.objects[frame.current] = [set |-> TRUE, config |-> None]]
    /\ UNCHANGED << instance, model_type_registry, lru, nobjs, last, handed,
                    memo, arg, result >>

\* lines 71-75 of _load_custom_providers, called by line 39: the optional
\* lookup
FetchProviderPath(t) ==
    /\ frame.thread[t].pc = "fetch_provider_path"
    /\ frame' = Goto(t, IF _fetch_ssm_parameter(arg[1].env.providers, FALSE).value = ""
                        THEN "bind" ELSE "list_providers")
    /\ UNCHANGED << prog, arg, result >>

\* lines 78-85: is_dir and the listing of the directory
ListProviders(t) ==
    /\ frame.thread[t].pc = "list_providers"
    /\ LET d == arg[1].env.providers.dir
           files == IF d.kind = "dir" THEN d.files ELSE << >>
       IN  frame' = [Goto(t, IF files = << >> THEN "bind" ELSE "load_provider")
                        EXCEPT !.thread[t].files = files]
    /\ UNCHANGED << prog, arg, result >>

\* lines 86-89: one artifact is read and loaded; line 114 writes the
\* dictionary the class attribute names now
LoadProvider(t) ==
    /\ frame.thread[t].pc = "load_provider"
    /\ LET files == frame.thread[t].files
           r == _load_provider_module(model_type_registry, Head(files))
       IN  /\ model_type_registry' = r.registry
           /\ frame' = IF r.exc # "" THEN RaiseIn(t, r.exc, r.msg)
                       ELSE [Goto(t, IF Tail(files) = << >> THEN "bind"
                                     ELSE "load_provider")
                                EXCEPT !.thread[t].files = Tail(files)]
    /\ UNCHANGED << instance, all_models_config, lru, nobjs, last, handed,
                    loaded_path, memo, arg, result >>

\* line 40, the call: cls._instance is read and bound to self
BindSelf(t) ==
    /\ frame.thread[t].pc = "bind"
    /\ frame' = [Goto(t, "local") EXCEPT !.thread[t].self = frame.current]
    /\ UNCHANGED << prog, arg, result >>

\* line 134
ThreadLoadLocal(t) ==
    /\ frame.thread[t].pc = "local"
    /\ LET r == _load_local_config(arg[1].env.fs[arg[1].local_path[t]])
       IN  frame' = IF r.exc # "" THEN RaiseIn(t, r.exc, r.msg)
                    ELSE [Goto(t, "lookup") EXCEPT
                             !.thread[t].local_config = Some(r.raw)]
    /\ UNCHANGED << prog, arg, result >>

\* line 139, the argument of the call of line 138
ThreadLookup(t) ==
    /\ frame.thread[t].pc = "lookup"
    /\ LET r == _fetch_ssm_parameter(arg[1].env.models, TRUE)
       IN  frame' = IF r.exc # "" THEN RaiseIn(t, r.exc, r.msg)
                    ELSE [Goto(t, "remote") EXCEPT
                             !.thread[t].s3_path_prefix = Some(r.value)]
    /\ UNCHANGED << prog, arg, result >>

\* line 138
ThreadLoadRemote(t) ==
    /\ frame.thread[t].pc = "remote"
    /\ LET r == _load_s3_config(frame.thread[t].s3_path_prefix[1], arg[1].env.models)
       IN  frame' = IF r.exc # "" THEN RaiseIn(t, r.exc, r.msg)
                    ELSE [Goto(t, "merge") EXCEPT
                             !.thread[t].remote_config = Some(r.raw)]
    /\ UNCHANGED << prog, arg, result >>

\* lines 141-146
ThreadMerge(t) ==
    /\ frame.thread[t].pc = "merge"
    /\ LET raw == OmegaConfMerge(frame.thread[t].local_config[1],
                                 frame.thread[t].remote_config[1], 2)
       IN  frame' = IF DOMAIN raw = {}
                    THEN RaiseIn(t, "ModelConfigurationError",
                                 << "No 'models' section found in configurations from",
                                    arg[1].local_path[t] >>)
                    ELSE [Goto(t, "validate") EXCEPT
                             !.thread[t].raw_configs = Some(raw)]
    /\ UNCHANGED << prog, arg, result >>

\* line 148, the call on the right-hand side
ThreadValidate(t) ==
    /\ frame.thread[t].pc = "validate"
    /\ LET r == _load_and_validate_configs(frame.thread[t].raw_configs[1])
       IN  frame' = IF r.exc # "" THEN RaiseIn(t, r.exc, r.msg)
                    ELSE [Goto(t, "store") EXCEPT !.thread[t].validated = r.config]
    /\ UNCHANGED << prog, arg, result >>

\* line 148, the assignment: self._all_models_config is written on the
\* instance bound by line 40, which cls._instance may no longer name
ThreadStore(t) ==
    /\ frame.thread[t].pc = "store"
    /\ LET self == frame.thread[t].self
       IN  /\ frame' = [Goto(t, "count") EXCEPT
                           !.objects[self] =
                              [set |-> TRUE, config |-> frame.thread[t].validated]]
           /\ IF self = frame.current
              THEN /\ all_models_config' = frame.thread[t].validated
                   /\ loaded_path' = Some(arg[1].local_path[t])
              ELSE UNCHANGED << all_models_config, loaded_path >>
    /\ UNCHANGED << instance, model_type_registry, lru, nobjs, last, handed,
                    memo, arg, result >>

\* lines 149-150: len(self._all_models_config.models) reads the attribute of
\* the bound instance again; when another thread's line 37 has reset it since
\* the store, the read of .models on None raises AttributeError out of __new__
ThreadCount(t) ==
    /\ frame.thread[t].pc = "count"
    /\ frame' = IF frame.objects[frame.thread[t].self].config = None
                THEN RaiseIn(t, "AttributeError",
                             << "'NoneType' object has no attribute 'models'" >>)
                ELSE Goto(t, "return")
    /\ UNCHANGED << prog, arg, result >>

\* line 42: return cls._instance, the instance the class attribute names now
ReturnInstance(t) ==
    /\ frame.thread[t].pc = "return"
    /\ handed' = TRUE
    /\ frame' = [Goto(t, "returned") EXCEPT
                    !.got[t] = Some([id |-> frame.current,
                                     set |-> frame.objects[frame.current].set,
                                     config |-> frame.objects[frame.current].config,
                                     in_progress |->
                                        \E u \in Threads \ {t} :
                                           frame.thread[u].pc \in ConstructionPcs])]
    /\ UNCHANGED << instance, all_models_config, model_type_registry, lru, nobjs,
                    last, loaded_path, memo, arg, result >>

NextConcurrent ==
    \E t \in Threads :
       \/ TestInstance(t)
       \/ AssignInstance(t)
       \/ TestRegistry(t)
       \/ SeedRegistry(t)
       \/ ResetCatalog(t)
       \/ FetchProviderPath(t)
       \/ ListProviders(t)
       \/ LoadProvider(t)
       \/ BindSelf(t)
       \/ ThreadLoadLocal(t)
       \/ ThreadLookup(t)
       \/ ThreadLoadRemote(t)
       \/ ThreadMerge(t)
       \/ ThreadValidate(t)
       \/ ThreadStore(t)
       \/ ThreadCount(t)
       \/ ReturnInstance(t)

SpecConcurrent == InitConcurrent /\ [][NextConcurrent]_vars

(***************************************************************************)
(* Properties.  In a step of the program last' is the call the step makes; *)
(* unprimed variables are the state the call found.                        *)
(***************************************************************************)
Ready == all_models_config # None

CachedKeys(cache) == {cache[i].key : i \in 1..Len(cache)}

\* the step is the call get_llm(n, p, force_reload=r)
IsGetLlm(n, p, r) ==
    /\ last'.op = "get_llm"
    /\ last'.name = n
    /\ last'.path = p
    /\ last'.force = r

\* the step is the call factory.get_model_instance(n)
IsGetModelInstance(n) ==
    /\ last'.op = "get_model_instance"
    /\ last'.name = n

\* the step is the call ModelFactory(p)
IsNew(p) ==
    /\ last'.op = "ModelFactory"
    /\ last'.path = p

\* the catalog the sources of env hold for path at the time of a call
SourceCatalog(path, env) == load_configurations(None, path, env.fs, env.models)

\* C1: cache identity.  When get_llm(m, p) has returned an object and no
\* force_reload and no cache overflow has happened since, get_llm(m, p) with
\* force_reload=False returns that very object and builds no provider object.
CacheIdentity ==
    [][\A n \in Names, p \in Paths :
          (IsGetLlm(n, p, FALSE) /\ memo[<< n, p >>] # 0)
          => /\ last'.exc = ""
             /\ last'.ret # None
             /\ last'.ret[1].id = memo[<< n, p >>]
             /\ ~last'.ctor
             /\ nobjs' = nobjs]_vars

\* a get_llm without force_reload answered from the cache, after another
\* object was built in between
CacheIdentityWitness ==
    /\ last.op = "get_llm"
    /\ ~last.force
    /\ ~last.ctor
    /\ last.ret # None
    /\ last.ret[1].id < nobjs

\* C2: whole-cache invalidation.  get_llm(m, p, force_reload=True) leaves no
\* entry of the cache it found, whatever its key; when it succeeds it returns
\* an object built by this call, which is then the only cache entry, stored
\* under (m, p); and a get_llm without force_reload returns the cached
\* object of its key when there is one and a newly built object otherwise.
WholeCacheInvalidation ==
    [][\A n \in Names, p \in Paths :
          /\ IsGetLlm(n, p, TRUE)
             => /\ \A i \in 1..Len(lru') :
                      /\ lru'[i].key = << n, p >>
                      /\ lru'[i].obj.id > nobjs
                /\ last'.ret # None
                   => /\ last'.ctor
                      /\ last'.ret[1].id = nobjs + 1
                      /\ nobjs' = nobjs + 1
                      /\ lru' = << [key |-> << n, p >>, obj |-> last'.ret[1]] >>
          /\ (IsGetLlm(n, p, FALSE) /\ last'.ret # None)
             => IF << n, p >> \in CachedKeys(lru)
                THEN [key |-> << n, p >>, obj |-> last'.ret[1]]
                        \in {lru[i] : i \in 1..Len(lru)}
                ELSE last'.ret[1].id = nobjs + 1]_vars

\* a successful force_reload that found two other entries in the cache
WholeCacheInvalidationWitness ==
    /\ last.op = "get_llm"
    /\ last.force
    /\ last.ret # None
    /\ last.ret[1].id = 3
    /\ Len(lru) = 1

\* C3: force_reload reloads the factory's content.  A successful
\* get_llm(m, p, force_reload=True) on a constructed factory returns an
\* object configured from the catalog the sources hold at the time of the
\* call, whatever they hold then.
ForceReloadReloadsContent ==
    [][\A n \in Names, p \in Paths :
          (instance /\ IsGetLlm(n, p, TRUE) /\ last'.ret # None)
          => \A e \in Envs, k \in BOOLEAN :
                (SourceCatalog(p, e).exc = "" /\ GetLlm(n, p, TRUE, e, k))
                => /\ n \in DOMAIN SourceCatalog(p, e).config[1].models
                   /\ last'.ret[1].config
                         = SourceCatalog(p, e).config[1].models[n]]_vars

\* C4: retry after failed construction.  A construction request that fails
\* leaves the factory uninitialized.
RetryAfterFailedConstruction ==
    (last.op = "ModelFactory" /\ last.exc # "") => ~instance

\* C4, the retry: a construction request on a factory without a catalog runs
\* the construction sequence, and stores a catalog when the sources load,
\* merge and validate.
RetryReachesReady ==
    [][\A p \in Paths :
          (IsNew(p) /\ ~Ready)
          => \A e \in Envs :
                (/\ SourceCatalog(p, e).exc = ""
                 /\ _load_custom_providers(BuiltinRegistry, e.providers).exc = ""
                 /\ New(p, e))
                => Ready']_vars

\* C5: fully usable or not constructed.  Once a construction request has
\* returned a factory to a caller, the factory has a catalog.
FullyUsableOrNotConstructed == handed => Ready

\* the step is the call factory.load_configurations(p)
IsLoadConfigurations(p) ==
    /\ last'.op = "load_configurations"
    /\ last'.path = p

\* C6: singleton lifecycle.  A ready factory stays ready and stays the
\* instance; every construction request on it, direct or made by get_llm,
\* leaves its catalog, its registry and the path the catalog was loaded for
\* as they are, whatever path the request passes; a direct request returns
\* the factory without error; and a get_llm that misses the cache is resolved
\* against the stored catalog, whatever path it passes.
SingletonLifecycle ==
    [][Ready
       => /\ Ready'
          /\ instance'
          /\ model_type_registry' = model_type_registry
          /\ (\A p \in Paths : ~IsLoadConfigurations(p))
             => /\ all_models_config' = all_models_config
                /\ loaded_path' = loaded_path
          /\ \A p \in Paths : IsNew(p) => (last'.exc = "" /\ handed')
          /\ \A n \in Names, p \in Paths, r \in BOOLEAN :
                (IsGetLlm(n, p, r) /\ last'.ctor /\ last'.ret # None)
                => /\ n \in DOMAIN all_models_config[1].models
                   /\ last'.ret[1].config = all_models_config[1].models[n]]_vars

\* get_llm has built an object for a path other than the one the catalog
\* was loaded for
SingletonLifecycleWitness ==
    /\ Ready
    /\ last.op = "get_llm"
    /\ last.ctor
    /\ last.ret # None
    /\ loaded_path # Some(last.path)

\* the outcome of a call for an unknown key n
NotFound(n) ==
    /\ last'.exc = "ModelNotFoundError"
    /\ last'.msg = << "Config for '", n, "' not found." >>
    /\ last'.ret = None
    /\ ~last'.ctor
    /\ nobjs' = nobjs

\* C7 as stated: unknown key.  On a ready factory, get_model_instance(name)
\* and get_llm(name, p) for a name that is no key of the catalog raise
\* ModelNotFoundError("Config for '<name>' not found.") and invoke no
\* provider constructor.
UnknownKey ==
    [][\A n \in Names :
          (Ready /\ n \notin DOMAIN all_models_config[1].models)
          => /\ IsGetModelInstance(n) => NotFound(n)
             /\ \A p \in Paths, r \in BOOLEAN : IsGetLlm(n, p, r) => NotFound(n)]_vars

\* C7 as amended: unknown key.  On a ready factory, for a name that is no key
\* of the catalog, get_model_instance(name) raises
\* ModelNotFoundError("Config for '<name>' not found.") and invokes no
\* provider constructor, and so does get_llm(name, p) unless the cache holds
\* an object under (name, p) and force_reload is false, in which case the
\* stored object is returned and no constructor is invoked.
UnknownKeyUncached ==
    [][\A n \in Names :
          (Ready /\ n \notin DOMAIN all_models_config[1].models)
          => /\ IsGetModelInstance(n) => NotFound(n)
             /\ \A p \in Paths :
                   /\ IsGetLlm(n, p, TRUE) => NotFound(n)
                   /\ IsGetLlm(n, p, FALSE)
                      => IF << n, p >> \in CachedKeys(lru)
                         THEN /\ last'.exc = ""
                              /\ last'.ret # None
                              /\ [key |-> << n, p >>, obj |-> last'.ret[1]]
                                    \in {lru[i] : i \in 1..Len(lru)}
                              /\ ~last'.ctor
                              /\ nobjs' = nobjs
                         ELSE NotFound(n)]_vars

\* get_llm raised ModelNotFoundError for gpt_4o, which the catalog had when
\* the factory was constructed and lost in a later load_configurations, while
\* the cache held a gpt_4o object under the other path
UnknownKeyUncachedWitness ==
    /\ Ready
    /\ DOMAIN all_models_config[1].models = {"claude"}
    /\ last.op = "get_llm"
    /\ last.name = "gpt_4o"
    /\ last.exc = "ModelNotFoundError"
    /\ Len(lru) > 0
    /\ \E i \in 1..Len(lru) : lru[i].obj.name = "gpt_4o"

\* C8: unresolved provider.  On a ready factory, get_model_instance(name) for
\* a catalog entry whose provider key is not registered raises
\* ModelConfigurationError naming that key and invokes no constructor.
UnresolvedProvider ==
    [][\A n \in Names :
          (/\ Ready
           /\ IsGetModelInstance(n)
           /\ n \in DOMAIN all_models_config[1].models
           /\ all_models_config[1].models[n].provider
                 \notin DOMAIN model_type_registry)
          => /\ last'.exc = "ModelConfigurationError"
             /\ last'.msg = << "No model class registered for provider '",
                               all_models_config[1].models[n].provider, "'." >>
             /\ last'.ret = None
             /\ ~last'.ctor
             /\ nobjs' = nobjs]_vars

\* get_model_instance failed on an unregistered provider key
UnresolvedProviderWitness ==
    /\ Ready
    /\ last.op = "get_model_instance"
    /\ last.exc = "ModelConfigurationError"
    /\ last.msg = << "No model class registered for provider '", "custom", "'." >>

\* C9: not ready.  get_model_instance on a factory without a catalog raises
\* ModelConfigurationError for every name, with no lookup and no constructor;
\* sources that load to zero entries make the factory ready, and on a ready
\* factory with zero entries get_model_instance raises ModelNotFoundError.
NotReady ==
    [][/\ \A n \in Names :
             IsGetModelInstance(n)
             => /\ ~Ready
                   => /\ last'.exc = "ModelConfigurationError"
                      /\ last'.msg =
                            << "Model configurations not loaded into the factory." >>
                      /\ ~last'.ctor
                      /\ nobjs' = nobjs
                /\ (Ready /\ DOMAIN all_models_config[1].models = {})
                   => last'.exc = "ModelNotFoundError"
       /\ \A p \in Paths :
             (~instance /\ IsNew(p))
             => \A e \in Envs :
                   (/\ e.fs[p] = Dir(EmptyTree)
                    /\ e.models \in {SsmEmpty, SsmDir(Dir(EmptyTree))}
                    /\ _load_custom_providers(BuiltinRegistry, e.providers).exc = ""
                    /\ New(p, e))
                   => /\ last'.exc = ""
                      /\ all_models_config' = Some([models |-> EmptyTree])]_vars

\* get_model_instance was called on a factory without a catalog
NotReadyWitness ==
    /\ ~Ready
    /\ last.op = "get_model_instance"
    /\ last.exc = "ModelConfigurationError"

\* get_model_instance was called on a ready factory with zero entries
EmptyCatalogWitness ==
    /\ all_models_config = Some([models |-> EmptyTree])
    /\ last.op = "get_model_instance"
    /\ last.exc = "ModelNotFoundError"

\* C10: merge override.  The merged tree has the union of the keys; a key of
\* one side only maps to that side's entry; for a key of both sides the
\* merged entry has the union of the fields, every field of the remote entry
\* with the remote value and every other field with the local value.
MergeOverride ==
    result # None
    => LET l == arg[1].local
           r == arg[1].remote
           m == result[1]
       IN  /\ DOMAIN m = (DOMAIN l) \cup (DOMAIN r)
           /\ \A k \in (DOMAIN l) \ (DOMAIN r) : m[k] = l[k]
           /\ \A k \in (DOMAIN r) \ (DOMAIN l) : m[k] = r[k]
           /\ \A k \in (DOMAIN l) \cap (DOMAIN r) :
                 /\ DOMAIN m[k] = (DOMAIN l[k]) \cup (DOMAIN r[k])
                 /\ \A f \in DOMAIN r[k] : m[k][f] = r[k][f]
                 /\ \A f \in (DOMAIN l[k]) \ (DOMAIN r[k]) : m[k][f] = l[k][f]

\* a key of both sides whose remote entry overrides one field with another
\* value and leaves a local field alone, beside a key of the remote side only
MergeOverrideWitness ==
    /\ result # None
    /\ DOMAIN arg[1].local = {"claude"}
    /\ DOMAIN arg[1].remote = Names
    /\ arg[1].local["claude"] = [model_id |-> "a", description |-> "a"]
    /\ arg[1].remote["claude"] = [model_id |-> "b"]
    /\ result[1]["claude"] = [model_id |-> "b", description |-> "a"]

\* the fields of a merged entry that violate the ModelConfig schema
InvalidFields(e) ==
    (Required \ DOMAIN e)
    \cup {f \in {input_token_cost_alias, output_token_cost_alias} \cap DOMAIN e :
             e[f] < 0}
    \cup {f \in {"max_tokens"} \cap DOMAIN e : e[f] < 1}
    \cup {f \in {"temperature"} \cap DOMAIN e : e[f] < 0 \/ e[f] > 20}

\* the tree load_configurations merges for its input
MergedTree ==
    OmegaConfMerge([models |-> arg[1].local],
                   [models |-> IF arg[1].remote.ssm = "value"
                               THEN arg[1].remote.dir.models ELSE EmptyTree],
                   2).models

\* C11: validation atomicity.  When at least one entry of the merged tree
\* violates the schema, load_configurations fails with the validation error,
\* whose error set has exactly one entry per invalid field of every invalid
\* entry, and the factory stores no catalog; when no entry violates it, the
\* catalog of all the merged entries is stored.
ValidationAtomicity ==
    result # None
    => LET bad == UNION {{<< k, f >> : f \in InvalidFields(MergedTree[k])} :
                            k \in DOMAIN MergedTree}
       IN  IF bad = {}
           THEN /\ result[1].exc = ""
                /\ all_models_config # None
                /\ DOMAIN all_models_config[1].models = DOMAIN MergedTree
           ELSE /\ result[1].exc = "ModelConfigurationError"
                /\ Len(result[1].msg) = 2
                /\ result[1].msg[1] = "Configuration validation failed"
                /\ {<< x[1], x[2] >> : x \in result[1].msg[2]} = bad
                /\ Cardinality(result[1].msg[2]) = Cardinality(bad)
                /\ all_models_config = None

\* a tree with one valid and one invalid entry, the invalid one with a
\* missing field and two broken bounds, was rejected as a whole
ValidationAtomicityWitness ==
    /\ result # None
    /\ DOMAIN MergedTree = Names
    /\ InvalidFields(MergedTree["claude"]) = {}
    /\ InvalidFields(MergedTree["gpt_4o"]) = {"name", "max_tokens", "temperature"}
    /\ result[1].exc = "ModelConfigurationError"
    /\ Cardinality(result[1].msg[2]) = 3
    /\ all_models_config = None

\* both entries of a tree were invalid, with five field errors in all
ValidationAcrossEntriesWitness ==
    /\ result # None
    /\ DOMAIN MergedTree = Names
    /\ Cardinality(InvalidFields(MergedTree["claude"])) = 2
    /\ Cardinality(InvalidFields(MergedTree["gpt_4o"])) = 3
    /\ Cardinality(result[1].msg[2]) = 5

\* the artifacts of a plugin location, in the order discovery visits them
PluginFiles(e) ==
    IF e.providers.ssm = "value" /\ e.providers.dir.kind = "dir"
    THEN e.providers.dir.files ELSE << >>

\* C12: partial plugin failure isolation.  When the first construction
\* request runs discovery over artifacts of which one fails to load, the
\* failure is not raised to the caller, and every artifact with a provider
\* class is registered under its lower-cased base name afterwards.
PluginFailureIsolation ==
    [][\A p \in Paths :
          (~instance /\ IsNew(p))
          => \A e \in Envs :
                (/\ \E i \in 1..Len(PluginFiles(e)) : PluginFiles(e)[i].kind = "raises"
                 /\ New(p, e))
                => /\ last'.exc # "Exception"
                   /\ \A i \in 1..Len(PluginFiles(e)) :
                         PluginFiles(e)[i].kind = "class"
                         => /\ Lower(PluginFiles(e)[i].stem)
                                  \in DOMAIN model_type_registry'
                            /\ model_type_registry'[Lower(PluginFiles(e)[i].stem)]
                                  = PluginFiles(e)[i].stem]_vars

\* C13: required remote catalog location.  When the lookup of the models
\* parameter fails or yields no value, or the location it names is not a
\* readable directory, the first construction request fails with
\* ModelConfigurationError and stores no catalog.
RequiredRemoteLocation ==
    [][\A p \in Paths :
          (~instance /\ IsNew(p))
          => \A e \in Envs :
                (/\ e.models \in {SsmError, SsmEmpty, SsmDir(NotDir)}
                 /\ _load_custom_providers(BuiltinRegistry, e.providers).exc = ""
                 /\ New(p, e))
                => /\ last'.exc = "ModelConfigurationError"
                   /\ all_models_config' = None]_vars

\* C14: optional plugin location.  When the lookup of the plugin parameter
\* fails or yields no value, or the location it names is not a directory, the
\* first construction request leaves the registry with the built-in
\* providers only and its outcome is the outcome of the catalog load: the
\* load's error if it fails, its catalog stored if it succeeds.
OptionalPluginLocation ==
    [][\A p \in Paths :
          (~instance /\ IsNew(p))
          => \A e \in Envs :
                (/\ e.providers \in {SsmError, SsmEmpty, SsmDir(NotDir)}
                 /\ New(p, e))
                => LET load == SourceCatalog(p, e)
                   IN  /\ model_type_registry' = BuiltinRegistry
                       /\ last'.exc = load.exc
                       /\ last'.msg = load.msg
                       /\ all_models_config' = load.config]_vars

\* a construction request has stored a catalog with entries while only the
\* built-in providers are registered
OptionalPluginLocationWitness ==
    /\ last.op = "ModelFactory"
    /\ last.exc = ""
    /\ Ready
    /\ DOMAIN all_models_config[1].models = Names
    /\ model_type_registry = BuiltinRegistry

\* C15: name of the returned object.  Every successful
\* get_model_instance(k) and get_llm(k, p) returns an object whose name is
\* the requested key k and whose configuration is the catalog's entry of k.
ReturnedObjectName ==
    [][\A n \in Names :
          (/\ \/ IsGetModelInstance(n)
              \/ \E p \in Paths, r \in BOOLEAN : IsGetLlm(n, p, r)
           /\ last'.ret # None)
          => /\ last'.ret[1].name = n
             /\ Ready'
             /\ n \in DOMAIN all_models_config'[1].models
             /\ last'.ret[1].config = all_models_config'[1].models[n]]_vars

\* C16: registry monotonicity.  From the first construction request on, the
\* registry holds the built-in keys bedrock and openai, and no step of any
\* construction, get or force_reload removes a key from it.
RegistryMonotonicity ==
    [][/\ DOMAIN model_type_registry \subseteq DOMAIN model_type_registry'
       /\ instance' => DOMAIN BuiltinRegistry \subseteq DOMAIN model_type_registry']_vars

\* a force_reload has built an object while a plugin's key is registered
\* beside the built-in ones
RegistryMonotonicityWitness ==
    /\ DOMAIN model_type_registry = DOMAIN BuiltinRegistry \cup {"custom"}
    /\ last.op = "get_llm"
    /\ last.force
    /\ last.ret # None

\* C17: bounded LRU cache.  The cache never holds more than maxsize entries
\* nor two entries of one key.  A get_llm without force_reload that hits
\* keeps every entry and makes the hit one the most recently used; one that
\* misses and builds an object appends it as the most recently used entry,
\* evicting exactly the least recently used entry when the cache is full.
BoundedLru ==
    [][/\ Len(lru') <= maxsize
       /\ \A i, j \in 1..Len(lru') : lru'[i].key = lru'[j].key => i = j
       /\ \A n \in Names, p \in Paths :
             (IsGetLlm(n, p, FALSE) /\ last'.ret # None)
             => LET Other(entry) == entry.key # << n, p >>
                    used == [key |-> << n, p >>, obj |-> last'.ret[1]]
                IN  IF << n, p >> \in CachedKeys(lru)
                    THEN lru' = SelectSeq(lru, Other) \o << used >>
                    ELSE IF Len(lru) = maxsize
                    THEN lru' = Tail(lru) \o << used >>
                    ELSE lru' = lru \o << used >>]_vars

\* an insertion into the full cache has just evicted an entry (memo was
\* reset by the overflow) and the first object built is still cached: it had
\* been hit after a later insertion, so it was not the least recently used
BoundedLruWitness ==
    /\ last.op = "get_llm"
    /\ last.ctor
    /\ Len(lru) = maxsize
    /\ lru[1].obj.id = 1
    /\ lru[Len(lru)].obj.id = nobjs
    /\ memo[lru[1].key] = 0

\* C18: plugin keys resolve from the catalog.  When discovery has registered
\* the provider class of the artifact with base name B, get_model_instance
\* for a catalog entry whose provider key is B invokes that class's
\* constructor and does not fail as an unresolved provider.
PluginKeyResolves ==
    [][\A n \in Names :
          (/\ Ready
           /\ IsGetModelInstance(n)
           /\ n \in DOMAIN all_models_config[1].models
           /\ LET B == all_models_config[1].models[n].provider
              IN  /\ Lower(B) \in DOMAIN model_type_registry
                  /\ model_type_registry[Lower(B)] = B)
          => /\ last'.ctor
             /\ last'.exc # "ModelConfigurationError"
             /\ last'.ret # None
                => last'.ret[1].class = all_models_config[1].models[n].provider]_vars

\* C19: only the cache memoizes.  Every successful get_model_instance
\* invokes the provider constructor and returns an object built by this
\* call, distinct from every object built before, whether or not an object
\* of the same name was built or is cached; the call leaves the factory, the
\* registry and the cache as they were.
FreshObjectPerCall ==
    [][\A n \in Names :
          (IsGetModelInstance(n) /\ last'.ret # None)
          => /\ last'.ctor
             /\ last'.ret[1].id = nobjs + 1
             /\ nobjs' = nobjs + 1
             /\ \A i \in 1..Len(lru) : lru[i].obj.id # last'.ret[1].id
             /\ UNCHANGED << instance, all_models_config, model_type_registry,
                             lru >>]_vars

\* get_model_instance has built an object for a name of which the cache
\* holds the first object built, after another get_model_instance built the
\* second
FreshObjectPerCallWitness ==
    /\ last.op = "get_model_instance"
    /\ last.ret # None
    /\ last.ret[1].id = 3
    /\ Len(lru) = 1
    /\ lru[1].key[1] = last.name
    /\ lru[1].obj.id = 1

\* the construction sequence of the specification
Order ==
    << "seed", "discover", "local", "lookup", "remote", "merge", "validate",
       "store" >>

IsPrefix(s, t) == Len(s) <= Len(t) /\ \A i \in 1..Len(s) : s[i] = t[i]

\* the position of a step in the sequence
Position(step) == CHOOSE i \in 1..Len(Order) : Order[i] = step

\* The step at which construction from path in env fails, read off the
\* sources: the first one in the sequence whose source is bad; "none" when
\* every source is good.
FailingStep(path, env) ==
    IF \E i \in 1..Len(PluginFiles(env)) : PluginFiles(env)[i].kind = "raises"
    THEN "discover"
    ELSE IF env.fs[path].kind # "dir" THEN "local"
    ELSE IF env.models.ssm = "error" THEN "lookup"
    ELSE IF env.models.ssm = "value" /\ env.models.dir.kind # "dir" THEN "remote"
    ELSE LET remote == IF env.models.ssm = "value" THEN env.models.dir.models
                       ELSE EmptyTree
             merged == OmegaConfMerge([models |-> env.fs[path].models],
                                      [models |-> remote], 2).models
         IN  IF \E k \in DOMAIN merged : InvalidFields(merged[k]) # {}
             THEN "validate"
             ELSE "none"

\* the line-by-line construction ends as the call taken as one step does
ConstructAgreesWithNew ==
    frame.pc \in {"raised", "returned"}
    => LET f == ModelFactory_new(FALSE, None, << >>, arg[1].local_path,
                                 arg[1].env.fs, arg[1].env.models,
                                 arg[1].env.providers)
       IN  /\ instance = f.instance
           /\ all_models_config = f.config
           /\ model_type_registry = f.registry
           /\ frame.exc = f.exc
           /\ frame.msg = f.msg
           /\ handed = (f.exc = "")

\* C20: construction order.  At every point of the first construction the
\* steps run so far are an initial part of the sequence seed, discover,
\* local, lookup, remote, merge, validate, store; the step at which a source
\* makes construction fail is the last one run, and the exception leaves the
\* call there (after a local directory or parse error the remote lookup is
\* never run); the catalog is stored exactly when all eight steps have run,
\* validation before the store, and only then does the call return.
ConstructionOrder ==
    LET failing == FailingStep(arg[1].local_path, arg[1].env)
    IN  /\ IsPrefix(frame.steps, Order)
        /\ failing # "none"
           => /\ Len(frame.steps) <= Position(failing)
              /\ frame.pc \notin {"return", "returned"}
        /\ frame.pc = "raised"
           <=> /\ failing # "none"
               /\ Len(frame.steps) = Position(failing)
        /\ frame.pc = "raised" => frame.exc # ""
        /\ Ready <=> frame.steps = Order
        /\ frame.pc \in {"return", "returned"} => Ready
        /\ handed => frame.pc = "returned"

\* construction failed at the local load with a remote parameter whose
\* lookup would have failed as well: the lookup was never run
ConstructionOrderWitness ==
    /\ frame.pc = "raised"
    /\ frame.steps = << "seed", "discover", "local" >>
    /\ arg[1].env.models = SsmError
    /\ frame.msg[1] = "An unexpected error occurred loading yaml config from"
    /\ frame.msg[2] = "local directory"
    /\ ~Ready

\* construction ran all eight steps over a plugin, two local entries and a
\* remote patch, and returned
ConstructionCompleteWitness ==
    /\ frame.pc = "returned"
    /\ frame.steps = Order
    /\ Ready
    /\ "custom" \in DOMAIN model_type_registry
    /\ arg[1].env.models = SsmDir(Dir(RemoteTree1))
    /\ all_models_config[1].models["claude"].model_id = "claude-v2"

\* The catalog one complete load-merge-validate run over the local directory
\* d and the remote source m produces, read off the sources; None when the
\* run fails at some step.
RunCatalog(d, m) ==
    IF d.kind # "dir" \/ m.ssm = "error" THEN None
    ELSE IF m.ssm = "value" /\ m.dir.kind # "dir" THEN None
    ELSE LET remote == IF m.ssm = "value" THEN m.dir.models ELSE EmptyTree
             merged == OmegaConfMerge([models |-> d.models], [models |-> remote],
                                      2).models
         IN  IF \E k \in DOMAIN merged : InvalidFields(merged[k]) # {} THEN None
             ELSE Some([models |-> [k \in DOMAIN merged |-> ModelConfig(merged[k])]])

\* C21: the catalog is replaced wholesale.  A load_configurations call whose
\* run fails at any step raises and leaves the stored catalog, or its
\* absence, as it was; a call whose run succeeds stores the run's catalog in
\* place of the previous one, keeping none of its entries; so the stored
\* catalog is always absent or the result of one complete run.
WholesaleReplacement ==
    [][arg' # arg \/ result' # result \/ all_models_config' # all_models_config
       => LET run == RunCatalog(arg'[1].dir, arg'[1].models)
          IN  /\ run = None
                 => /\ result'[1].exc = "ModelConfigurationError"
                    /\ all_models_config' = all_models_config
              /\ run # None
                 => /\ result'[1].exc = ""
                    /\ all_models_config' = run
              /\ \/ all_models_config' = None
                 \/ \E d \in LocalStates, m \in ModelsStates :
                       all_models_config' = RunCatalog(d, m)]_vars

\* a failing load has left a stored catalog of two entries in place
WholesaleReplacementWitness ==
    /\ result # None
    /\ result[1].exc = "ModelConfigurationError"
    /\ Len(result[1].msg) = 2
    /\ result[1].msg[1] = "Configuration validation failed"
    /\ all_models_config # None
    /\ DOMAIN all_models_config[1].models = Names

\* a successful load of a directory with one entry has stored the catalog of
\* that entry alone
WholesaleReplacedWitness ==
    /\ result # None
    /\ result[1].exc = ""
    /\ arg[1].dir = Dir(LocalTree2)
    /\ arg[1].models = SsmEmpty
    /\ all_models_config = Some([models |-> [claude |-> ModelConfig(RawClaudeP2)]])

\* C22: failed requests are not memoized.  A get_llm(m, p) that raises,
\* whatever raised (the construction, ModelNotFoundError,
\* ModelConfigurationError, the provider's constructor), returns nothing,
\* stores no entry and leaves the entries of the cache as they were (as
\* force_reload's clear left them, when it was asked for); and the get_llm
\* for the same key that follows a failed one is resolved anew, never
\* answered from the cache.
FailedNotMemoized ==
    [][\A n \in Names, p \in Paths, r \in BOOLEAN :
          IsGetLlm(n, p, r)
          => /\ last'.exc # ""
                => /\ last'.ret = None
                   /\ lru' = IF r THEN << >> ELSE lru
                   /\ << n, p >> \notin CachedKeys(lru')
                   /\ nobjs' = nobjs
             /\ (/\ last.op = "get_llm"
                 /\ last.exc # ""
                 /\ last.name = n
                 /\ last.path = p
                 /\ last'.ret # None)
                => /\ last'.ctor
                   /\ last'.ret[1].id = nobjs + 1]_vars

\* the provider's constructor raised in a get_llm without force_reload while
\* the cache held an entry, which is still there
FailedNotMemoizedWitness ==
    /\ last.op = "get_llm"
    /\ ~last.force
    /\ last.exc = "ValueError"
    /\ last.ctor
    /\ Len(lru) = 1
    /\ lru[1].key[1] # last.name

\* C23: concurrent first callers.  When two threads make their first
\* construction request concurrently, under every interleaving the
\* construction sequence runs at most once, at most one instance is created,
\* and no thread is returned an instance without a catalog while the other
\* thread's construction is in progress.
ConcurrentFirstCallers ==
    /\ frame.runs <= 1
    /\ Len(frame.objects) <= 1
    /\ \A t \in Threads :
          (frame.got[t] # None /\ frame.got[t][1].in_progress)
          => frame.got[t][1].config # None

\* C23, the instances: at most one instance is ever created.
OneInstanceCreated == Len(frame.objects) <= 1

\* C23, the catalog: no thread is returned an instance without a catalog
\* while the other thread is constructing.
NoAbsentCatalogObtained ==
    \A t \in Threads :
       (frame.got[t] # None /\ frame.got[t][1].in_progress)
       => frame.got[t][1].config # None

=============================================================================
